---- MODULE Spec2Model ----
(***************************************************************************)
(* A model of causalestimation.py: the CausalEffect estimator.             *)
(*                                                                         *)
(* Numbers.  Every variable value and support bound is an integer count of *)
(* hundredths, so that K * bw (K = .01, bw a whole number) is exact.       *)
(* Densities are whole numbers.  A single-row DataFrame is a function from *)
(* column names to values; a list is a sequence.                           *)
(*                                                                         *)
(* Collaborators.  The fitted kernel density models and the quadrature     *)
(* routine are libraries outside the repository.  A fitted model is a      *)
(* record of its fit-time dimensions; evaluating it is positional in those *)
(* dimensions (Kernel).  nquad is a rule with nodes at the two ends of     *)
(* every range (Nodes).                                                    *)
(*                                                                         *)
(* Exceptions.  A call yields Ok(v) or Err(kind), kind the Python          *)
(* exception class raised first.                                          *)
(***************************************************************************)
EXTENDS Integers, Sequences, FiniteSets, TLC

VARIABLES
    phase,      \* "new" | "ready" | "failed"
    ctor_args,  \* the arguments __init__ was called with
    ctor_error, \* the exception class __init__ raised, "none" otherwise
    self,       \* the attributes of the CausalEffect object
    globals,    \* module-level names CE and args as the caller's session binds them
    last_op,    \* the last query method called
    last_in,    \* its argument values
    result      \* what it returned or raised

vars == <<phase, ctor_args, ctor_error, self, globals, last_op, last_in, result>>

---------------------------------------------------------------------------
(* Bounds of the model *)

\* every column of the sample spans MaxLevels + 1 whole units, so a discrete
\* variable has MaxLevels + 1 values
MaxLevels == 1

\* number of rows of the sample X
NumRows == 200

---------------------------------------------------------------------------
(* Generic helpers *)

Range(s) == {s[i] : i \in 1..Len(s)}

Min2(a, b) == IF a <= b THEN a ELSE b

Max2(a, b) == IF a >= b THEN a ELSE b

IndexOf(s, v) == CHOOSE i \in 1..Len(s) : s[i] = v

Perms(S) == {s \in [1..Cardinality(S) -> S] : \A i, j \in 1..Cardinality(S) : s[i] = s[j] => i = j}

RECURSIVE SumSeq(_)
SumSeq(s) == IF s = <<>> THEN 0 ELSE Head(s) + SumSeq(Tail(s))

RECURSIVE SumOver(_, _)
\* sum of f[e] over the elements e of S
SumOver(f, S) == IF S = {} THEN 0
                 ELSE LET e == CHOOSE e \in S : TRUE IN f[e] + SumOver(f, S \ {e})

Ok(v) == [kind |-> "ok", val |-> v]

Err(k) == [kind |-> k, val |-> <<>>]

NoResult == [kind |-> "none", val |-> <<>>]

---------------------------------------------------------------------------
(* The sample X and the collaborators *)

EffectNames == {"Y"}

CauseNames == {"X1", "X2"}

ConfounderNames == {"Z1", "Z2"}

Columns == EffectNames \cup CauseNames \cup ConfounderNames

\* X[variable].min() and X[variable].max(), in whole units
DataMin(v) == CASE v = "Y" -> 0 [] v = "X1" -> 0 [] v = "X2" -> 1 [] v = "Z1" -> 0 [] OTHER -> 1

DataMax(v) == DataMin(v) + MaxLevels

\* the bandwidth a fit gives the dimension of variable v: a whole number,
\* different for every variable
FittedBw(v) == CASE v = "Y" -> 3 [] v = "X1" -> 5 [] v = "X2" -> 7 [] v = "Z1" -> 11 [] OTHER -> 13

\* weight of a dimension in the kernel sum
DimWeight(v) == CASE v = "Y" -> 1 [] v = "X1" -> 2 [] v = "X2" -> 3 [] v = "Z1" -> 4 [] OTHER -> 5

\* A fitted model: its dimensions in fit-time order, their types, the
\* bandwidth rule, and the bandwidth vector aligned to the dimensions.
FitModel(dims, types, rule) ==
    [dims |-> dims, var_type |-> types, bw_rule |-> rule,
     bw |-> [i \in 1..Len(dims) |-> FittedBw(dims[i])]]

NoModel == [dims |-> <<>>, var_type |-> <<>>, bw_rule |-> "", bw |-> <<>>]

\* model.pdf(point): positional in the model's dimensions, strictly positive
Kernel(model, point) ==
    1 + (SumSeq([i \in 1..Len(model.dims) |-> DimWeight(model.dims[i]) * i * point[i]]) % 7)

\* nodes of the quadrature rule on one range (lower, upper)
Nodes(supp) == <<supp[1], supp[2]>>

---------------------------------------------------------------------------
(* CausalEffect.__init__ *)

\* the types a call may give variable v: continuous or discrete, the
\* discrete type being ordered, and for Z2 unordered
TypesOf(v) == IF v = "Z2" THEN {"c", "u"} ELSE {"c", "o"}

\* `if variable_types:` -- None and the empty dict are both falsy
Truthy(a) == ~a.types_none /\ DOMAIN a.variable_types # {}

\* the first exception __init__ raises, "none" when it completes
InitError(a) ==
    LET conditionals == a.confounders \o a.causes IN
    IF ~Truthy(a) THEN "AttributeError"     \* self.__infer_variable_types is not defined
    ELSE IF \E var \in Range(a.effects \o conditionals) : var \notin DOMAIN a.variable_types
         THEN "KeyError"                    \* variable_types[var]
    ELSE "none"

\* EstimatorSettings chosen from the size of the problem
Defaults(a) ==
    IF NumRows > 300
       \/ Max2(Len(a.causes \o a.confounders), Len(a.effects \o a.confounders)) >= 3
    THEN [n_jobs |-> 4, efficient |-> TRUE]
    ELSE [n_jobs |-> -1, efficient |-> FALSE]

BwRule(variable_types) ==
    IF "c" \notin {variable_types[v] : v \in DOMAIN variable_types}
    THEN "cv_ml" ELSE "normal_reference"

\* the margin factor .01, in hundredths of a bandwidth unit
K == 1

\* variable_bandwidths: the names conditionals + effects zipped with kYgXZ.bw
VariableBandwidths(conditionals, effects, kYgXZ) ==
    LET names == conditionals \o effects
        n == Min2(Len(names), Len(kYgXZ.bw))
    IN [v \in {names[i] : i \in 1..n} |-> kYgXZ.bw[IndexOf(names, v)]]

get_support(conditionals, effects, variable_types, kYgXZ) ==
    LET data_support == [v \in Columns |-> <<100 * DataMin(v), 100 * DataMax(v)>>]
        variable_bandwidths == VariableBandwidths(conditionals, effects, kYgXZ)
    IN [variable \in Range(conditionals \o effects) |->
          IF variable_types[variable] = "c"
          THEN <<data_support[variable][1] - K * variable_bandwidths[variable],
                 data_support[variable][2] + K * variable_bandwidths[variable]>>
          ELSE data_support[variable]]

DiscreteVariables(variable_types) ==
    {v \in DOMAIN variable_types : variable_types[v] \in {"o", "u"}}

ContinuousVariables(variable_types) ==
    {v \in DOMAIN variable_types : variable_types[v] = "c"}

NoSelf ==
    [attrs |-> {}, causes |-> <<>>, effects |-> <<>>, confounders |-> <<>>,
     conditionals |-> <<>>, defaults |-> [n_jobs |-> 0, efficient |-> FALSE],
     variable_types |-> <<>>, kYgXZ |-> NoModel, support |-> <<>>,
     discrete_variables |-> {}, continuous_variables |-> {},
     discrete_Z |-> <<>>, continuous_Z |-> <<>>, kZ |-> NoModel,
     discrete_X |-> <<>>, continuous_X |-> <<>>, kX |-> NoModel]

\* the attributes assigned before __init__ raised
PartialSelf(a) ==
    [NoSelf EXCEPT
        !.attrs = {"causes", "effects", "confounders", "conditionals", "defaults"}
                  \cup (IF Truthy(a) THEN {"variable_types"} ELSE {}),
        !.causes = a.causes, !.effects = a.effects, !.confounders = a.confounders,
        !.conditionals = a.confounders \o a.causes,
        !.defaults = Defaults(a),
        !.variable_types = IF Truthy(a) THEN a.variable_types ELSE <<>>]

\* the object a completed __init__ leaves; dZ, cZ, dX, cX are the orders
\* list(set(...)) happens to give
InitSelf(a, dZ, cZ, dX, cX) ==
    LET conditionals == a.confounders \o a.causes
        vt == a.variable_types
        bw == BwRule(vt)
        kYgXZ == FitModel(a.effects \o conditionals,
                          [i \in 1..Len(a.effects \o conditionals) |-> vt[(a.effects \o conditionals)[i]]],
                          bw)
    IN [attrs |-> {"causes", "effects", "confounders", "conditionals", "defaults",
                   "variable_types", "kYgXZ", "support", "discrete_variables",
                   "continuous_variables"}
                  \cup (IF a.confounders # <<>> THEN {"discrete_Z", "continuous_Z", "kZ"} ELSE {})
                  \cup (IF a.info THEN {"discrete_X", "continuous_X", "kX"} ELSE {}),
        causes |-> a.causes, effects |-> a.effects, confounders |-> a.confounders,
        conditionals |-> conditionals,
        defaults |-> Defaults(a),
        variable_types |-> vt,
        kYgXZ |-> kYgXZ,
        support |-> get_support(conditionals, a.effects, vt, kYgXZ),
        discrete_variables |-> DiscreteVariables(vt),
        continuous_variables |-> ContinuousVariables(vt),
        discrete_Z |-> IF a.confounders # <<>> THEN dZ ELSE <<>>,
        continuous_Z |-> IF a.confounders # <<>> THEN cZ ELSE <<>>,
        kZ |-> IF a.confounders # <<>>
               THEN FitModel(a.confounders, [i \in 1..Len(a.confounders) |-> vt[a.confounders[i]]], bw)
               ELSE NoModel,
        discrete_X |-> IF a.info THEN dX ELSE <<>>,
        continuous_X |-> IF a.info THEN cX ELSE <<>>,
        kX |-> IF a.info
               THEN FitModel(a.causes, [i \in 1..Len(a.causes) |-> vt[a.causes[i]]], bw)
               ELSE NoModel]

\* the constructor calls the model explores
CauseLists == {<<"X1">>, <<"X1", "X2">>}

ConfounderLists == {<<>>, <<"Z1">>, <<"Z1", "Z2">>}

Used(causes, effects, confounders) == Range(causes) \cup Range(effects) \cup Range(confounders)

\* a complete dict, a dict lacking one entry, or the empty dict
TypeDicts(used) ==
    UNION {{vt \in [D -> {"c", "o", "u"}] : \A v \in D : vt[v] \in TypesOf(v)} :
              D \in {used} \cup {used \ {v} : v \in used}}
    \cup {<<>>}

CtorArgsFor(c, z) ==
    {[causes |-> c, effects |-> <<"Y">>, confounders |-> z, variable_types |-> vt,
      types_none |-> FALSE, info |-> i] :
        vt \in TypeDicts(Used(c, <<"Y">>, z)), i \in BOOLEAN}
    \cup {[causes |-> c, effects |-> <<"Y">>, confounders |-> z, variable_types |-> <<>>,
           types_none |-> TRUE, info |-> i] : i \in BOOLEAN}

CtorArgs == UNION {CtorArgsFor(c, z) : c \in CauseLists, z \in ConfounderLists}

---------------------------------------------------------------------------
(* Rows, ranges and quadrature *)

\* pd.DataFrame({k : [v] for k, v in zip(names, vals)}): zip stops at the shorter
ZipRow(names, vals) ==
    LET n == Min2(Len(names), Len(vals))
    IN [v \in {names[i] : i \in 1..n} |-> vals[IndexOf(names, v)]]

\* row[cols].values[0]
Values(row, cols) == [i \in 1..Len(cols) |-> row[cols[i]]]

\* a.join(b), the columns of a and b being disjoint
Join(a, b) == [v \in DOMAIN a \cup DOMAIN b |-> IF v \in DOMAIN a THEN a[v] ELSE b[v]]

\* int(value): truncation toward zero of a value held in hundredths
IntTrunc(c) == IF c >= 0 THEN c \div 100 ELSE -((-c) \div 100)

\* range(int(support[0]), int(support[1]) + 1), its elements in hundredths
IntRange(supp) ==
    LET lo == IntTrunc(supp[1])
        hi == IntTrunc(supp[2])
    IN [i \in 1..(hi - lo + 1) |-> 100 * (lo + i - 1)]

RECURSIVE Prepend(_, _, _)
\* for h in heads (in order), for t in tails (in order): <<h>> \o t
Prepend(heads, tails, i) ==
    IF i > Len(heads) THEN <<>>
    ELSE [j \in 1..Len(tails) |-> <<heads[i]>> \o tails[j]] \o Prepend(heads, tails, i + 1)

RECURSIVE Product(_)
\* itertools.product(*ranges) as the sequence of its tuples
Product(ranges) ==
    IF ranges = <<>> THEN << <<>> >>
    ELSE Prepend(Head(ranges), Product(Tail(ranges)), 1)

\* the points at which nquad(func, ranges, args) evaluates func: the nodes of
\* the ranges, as func's leading positional arguments
QuadPoints(ranges) == Product([i \in 1..Len(ranges) |-> Nodes(ranges[i])])

\* nquad(func, ranges, args)[0], vals being func's values at QuadPoints(ranges)
Nquad(vals) == SumSeq(vals)

---------------------------------------------------------------------------
(* CausalEffect.CATE and CausalEffect.ATE *)

\* CATE(*args): y * P(y | z, x), the arguments read as effects, confounders, causes
CATE(s, args) ==
    LET data == ZipRow(s.effects \o s.confounders \o s.causes, args)
        pYgXZ == Kernel(s.kYgXZ, Values(data, s.effects) \o Values(data, s.confounders \o s.causes))
    IN Values(data, s.effects)[1] * pYgXZ

\* one pass of the body of ATE's loop over the joint confounder values
ATETerm(s, x, z) ==
    LET Ysupp == [i \in 1..Len(s.effects) |-> s.support[s.effects[i]]]
        z_discrete == ZipRow(s.confounders, z)
        exog_predictors == Values(Join(x, z_discrete), s.conditionals)
        pZ == Kernel(s.kZ, Values(z_discrete, s.confounders))
        ys == QuadPoints(Ysupp)
    IN Nquad([k \in 1..Len(ys) |-> CATE(s, ys[k] \o exog_predictors)]) * pZ

\* the loop of ATE: `return sum(ATE)` is inside the body, so the pass for
\* the first joint value returns; a loop of no pass falls off the method (None)
ATELoop(s, x, zs) == IF zs = <<>> THEN Err("None") ELSE Ok(SumSeq(<<ATETerm(s, x, zs[1])>>))

ATE(s, x) ==
    LET Ysupp == [i \in 1..Len(s.effects) |-> s.support[s.effects[i]]]
        xvals == Values(x, s.causes)
    IN IF "discrete_Z" \notin s.attrs THEN Err("AttributeError")
       ELSE IF s.discrete_Z # <<>>
       THEN LET Zsupp == [i \in 1..Len(s.confounders) |-> IntRange(s.support[s.confounders[i]])]
            IN ATELoop(s, x, Product(Zsupp))
       ELSE IF s.continuous_Z # <<>>
       THEN LET supp == [i \in 1..Len(s.effects \o s.continuous_Z) |->
                            s.support[(s.effects \o s.continuous_Z)[i]]]
                yzs == QuadPoints(supp)
            IN Ok(Nquad([k \in 1..Len(yzs) |-> CATE(s, yzs[k] \o xvals)]))
       ELSE LET ys == QuadPoints(Ysupp)
            IN Ok(Nquad([k \in 1..Len(ys) |-> CATE(s, ys[k] \o xvals)]))

---------------------------------------------------------------------------
(* CausalEffect.pdf *)

\* one pass of the body of pdf's loop over the joint discrete confounder values
PdfTerm(s, args, z_vals) ==
    LET z_discrete == ZipRow(s.discrete_Z, z_vals)
        exog_predictors == Values(Join(args, z_discrete), s.conditionals)
        pYgXZ == Kernel(s.kYgXZ, Values(args, s.effects) \o exog_predictors)
        pZ == Kernel(s.kZ, Values(z_discrete, s.confounders))
    IN pYgXZ * pZ

\* func(*args) of pdf's continuous branch
PdfFunc(s, a) ==
    LET data == ZipRow(s.confounders \o s.causes \o s.effects, a)
        pYgXZ == Kernel(s.kYgXZ, Values(data, s.effects) \o Values(data, s.conditionals))
        pZ == Kernel(s.kZ, Values(data, s.confounders))
    IN pYgXZ * pZ

pdf(s, point) ==
    IF ~(Range(s.causes \o s.effects) \subseteq DOMAIN point) THEN Err("KeyError")
    ELSE LET args == [v \in Range(s.causes \o s.effects) |-> point[v]] IN
    IF "discrete_Z" \notin s.attrs THEN Err("AttributeError")
    ELSE IF s.discrete_Z # <<>>
    THEN LET Zsupp == [i \in 1..Len(s.discrete_Z) |-> IntRange(s.support[s.discrete_Z[i]])]
             zs == Product(Zsupp)
         IN IF zs # <<>> /\ ~(Range(s.confounders) \subseteq Range(s.discrete_Z))
            THEN Err("KeyError")            \* z_discrete[self.confounders]
            ELSE Ok(SumSeq([k \in 1..Len(zs) |-> PdfTerm(s, args, zs[k])]))
    ELSE IF s.continuous_Z # <<>>
    THEN LET Zsupp == [i \in 1..Len(s.continuous_Z) |-> s.support[s.continuous_Z[i]]]
             zs == QuadPoints(Zsupp)
         IN Ok(Nquad([k \in 1..Len(zs) |-> PdfFunc(s, zs[k] \o Values(args, s.causes \o s.effects))]))
    ELSE Ok(Kernel(s.kYgXZ, Values(args, s.effects) \o Values(args, s.causes)))

---------------------------------------------------------------------------
(* CausalEffect.integration_flow and CausalEffect.local_flow *)

\* The number d + eps * 1e-12: a density sum d to which 1e-12 was added eps times
Plus(d, eps) == [d |-> d, eps |-> eps]

\* The number sign * p * log(p / q), kept as the expression it is
PLogPQ(sign, p, q) == [sign |-> sign, p |-> p, q |-> q]

\* one pass of the body of integration_flow's loop over the joint discrete cause values
FlowTerm(s, args, x) ==
    LET x_pred == ZipRow(s.effects \o s.causes, SubSeq(args, 1, Len(args) - 1) \o x)
    IN Kernel(s.kX, Values(x_pred, s.causes)) * pdf(s, x_pred).val

\* q of the branch for continuous causes: CE is a name of the module, not
\* of the method, and nquad can neither unpack args[-1], a number, nor call
\* self.pdf with the integrated values as positional arguments
ContinuousQ(s, g, args) ==
    IF ~g.CE THEN Err("NameError") ELSE Err("TypeError")

integration_flow(s, g, args) ==
    LET data == ZipRow(s.effects \o s.causes, args)
        pd == pdf(s, data)
    IN IF pd.kind # "ok" THEN pd
       ELSE IF "discrete_X" \notin s.attrs THEN Err("AttributeError")
       ELSE IF s.discrete_X # <<>>
       THEN LET Xsupp == [i \in 1..Len(s.discrete_X) |-> IntRange(s.support[s.discrete_X[i]])]
                xs == Product(Xsupp)
                q == SumSeq([k \in 1..Len(xs) |-> FlowTerm(s, args, xs[k])])
            IN Ok(PLogPQ(-1, Plus(pd.val, 1), Plus(q, 1)))
       ELSE LET q == ContinuousQ(s, g, args)
            IN IF q.kind # "ok" THEN q
               ELSE Ok(PLogPQ(1, Plus(pd.val, 1), Plus(q.val, 1)))

\* local_flow(x): the integrand's fixed arguments are read from the name
\* `args`, which is no parameter or local of local_flow
local_flow(s, g, x) ==
    LET Ysupp == [i \in 1..Len(s.effects) |-> s.support[s.effects[i]]]
        pts == QuadPoints(Ysupp)
        terms == [k \in 1..Len(pts) |-> integration_flow(s, g, pts[k] \o g.args)]
    IN IF ~g.args_bound THEN Err("NameError")
       ELSE IF \E k \in 1..Len(pts) : terms[k].kind # "ok"
       THEN terms[CHOOSE k \in 1..Len(pts) :
                     terms[k].kind # "ok" /\ \A j \in 1..(k - 1) : terms[j].kind = "ok"]
       ELSE Ok([neg |-> TRUE, terms |-> [k \in 1..Len(pts) |-> terms[k].val]])

---------------------------------------------------------------------------
(* The estimator's life: one construction, then any sequence of queries *)

NoArgs ==
    [causes |-> <<>>, effects |-> <<>>, confounders |-> <<>>, variable_types |-> <<>>,
     types_none |-> TRUE, info |-> FALSE]

Init ==
    /\ phase = "new"
    /\ ctor_args = NoArgs
    /\ ctor_error = "none"
    /\ self = NoSelf
    /\ globals = [CE |-> FALSE, args_bound |-> FALSE, args |-> <<>>]
    /\ last_op = "none"
    /\ last_in = <<>>
    /\ result = NoResult

\* values a query may put in column v: the ends of the observed range, in hundredths
QueryValues(v) == {100 * DataMin(v), 100 * DataMax(v)}

\* the single-row records over the columns cols
QueryRows(cols) == {r \in [cols -> UNION {QueryValues(v) : v \in cols}] : \A v \in cols : r[v] \in QueryValues(v)}

\* what the caller's session may have bound to the module-level names
GlobalsFor(a) ==
    {[CE |-> FALSE, args_bound |-> FALSE, args |-> <<>>],
     [CE |-> TRUE, args_bound |-> TRUE,
      args |-> [i \in 1..Len(a.causes) |-> 100 * DataMax(a.causes[i])]]}

Construct ==
    /\ phase = "new"
    /\ \E a \in CtorArgs :
         /\ ctor_args' = a
         /\ ctor_error' = InitError(a)
         /\ globals' \in GlobalsFor(a)
         /\ IF InitError(a) = "none"
            THEN /\ phase' = "ready"
                 /\ \E dZ \in Perms(DiscreteVariables(a.variable_types) \cap Range(a.confounders)),
                       cZ \in Perms(ContinuousVariables(a.variable_types) \cap Range(a.confounders)),
                       dX \in Perms(DiscreteVariables(a.variable_types) \cap Range(a.causes)),
                       cX \in Perms(ContinuousVariables(a.variable_types) \cap Range(a.causes)) :
                       self' = InitSelf(a, dZ, cZ, dX, cX)
            ELSE /\ phase' = "failed"
                 /\ self' = PartialSelf(a)
    /\ UNCHANGED <<last_op, last_in, result>>

ATEQuery ==
    /\ phase = "ready"
    /\ \E x \in QueryRows(Range(self.causes)) :
         /\ last_op' = "ATE"
         /\ last_in' = x
         /\ result' = ATE(self, x)
    /\ UNCHANGED <<phase, ctor_args, ctor_error, self, globals>>

\* pdf as it would be if it kept its argument on the object
PdfQuery_StoresArgs ==
    /\ phase = "ready"
    /\ \E point \in QueryRows(Range(self.causes \o self.effects)) :
         /\ last_op' = "pdf"
         /\ last_in' = point
         /\ result' = pdf(self, point)
    /\ self' = [self EXCEPT !.attrs = self.attrs \cup {"args"}]
    /\ UNCHANGED <<phase, ctor_args, ctor_error, globals>>

PdfQuery ==
    /\ phase = "ready"
    /\ \E point \in QueryRows(Range(self.causes \o self.effects)) :
         /\ last_op' = "pdf"
         /\ last_in' = point
         /\ result' = pdf(self, point)
    /\ UNCHANGED <<phase, ctor_args, ctor_error, self, globals>>

IntegrationFlowQuery ==
    /\ phase = "ready"
    /\ \E row \in QueryRows(Range(self.effects \o self.causes)) :
       LET args == Values(row, self.effects \o self.causes) IN
         /\ last_op' = "integration_flow"
         /\ last_in' = args
         /\ result' = integration_flow(self, globals, args)
    /\ UNCHANGED <<phase, ctor_args, ctor_error, self, globals>>

LocalFlowQuery ==
    /\ phase = "ready"
    /\ \E x \in QueryRows(Range(self.causes)) :
         /\ last_op' = "local_flow"
         /\ last_in' = x
         /\ result' = local_flow(self, globals, x)
    /\ UNCHANGED <<phase, ctor_args, ctor_error, self, globals>>

Next == Construct \/ ATEQuery \/ PdfQuery \/ IntegrationFlowQuery \/ LocalFlowQuery

Spec == Init /\ [][Next]_vars

---------------------------------------------------------------------------
(* What the specification says the queries return *)

\* the inclusive integer range [min, max] of a discrete variable, in hundredths
InclusiveRange(s, v) == {100 * k : k \in IntTrunc(s.support[v][1])..IntTrunc(s.support[v][2])}

\* the joint values of the discrete variables names: one value for each
JointValues(s, names) ==
    {z \in [names -> UNION {InclusiveRange(s, v) : v \in names}] :
        \A v \in names : z[v] \in InclusiveRange(s, v)}

AllDiscrete(s, names) == \A v \in names : s.variable_types[v] # "c"

\* the integral over the effects' support of CATE(y, z, x)
IntegralCATE(s, z, x) ==
    LET ys == QuadPoints([i \in 1..Len(s.effects) |-> s.support[s.effects[i]]])
    IN Nquad([k \in 1..Len(ys) |-> CATE(s, ys[k] \o Values(z, s.confounders) \o Values(x, s.causes))])

\* sum over every joint confounder value z of (integral of CATE(y, z, x)) * P(z)
AdjustedATE(s, x) ==
    LET Z == JointValues(s, Range(s.confounders))
    IN SumOver([z \in Z |-> IntegralCATE(s, z, x) * Kernel(s.kZ, Values(z, s.confounders))], Z)

\* sum over every joint confounder value z of P(y | x, z) * P(z)
AdjustedPdf(s, point) ==
    LET Z == JointValues(s, Range(s.confounders))
    IN SumOver([z \in Z |->
                  Kernel(s.kYgXZ, Values(point, s.effects) \o Values(z, s.confounders)
                                  \o Values(point, s.causes))
                  * Kernel(s.kZ, Values(z, s.confounders))], Z)

\* the point x' of one term of q: the discrete causes at their enumerated
\* values e, everything else as queried
TermPoint(s, data, e) ==
    [v \in DOMAIN data |-> IF v \in DOMAIN e THEN e[v] ELSE data[v]]

\* sum over every joint value x' of the discrete causes of P_X(x') * pdf(x', y)
ReferenceMass(s, data) ==
    LET E == JointValues(s, Range(s.discrete_X))
    IN SumOver([e \in E |->
                  Kernel(s.kX, Values(TermPoint(s, data, e), s.causes))
                  * pdf(s, TermPoint(s, data, e)).val], E)

\* minus the integral over the effects' support of integrationFlow(y, x)
LocalFlowOf(s, g, x) ==
    LET pts == QuadPoints([i \in 1..Len(s.effects) |-> s.support[s.effects[i]]])
    IN [neg |-> TRUE,
        terms |-> [k \in 1..Len(pts) |->
                      integration_flow(s, g, pts[k] \o Values(x, s.causes)).val]]

\* variable_types is absent or empty, or lacks an entry for a referenced variable
BadTypes(a) ==
    \/ a.types_none
    \/ DOMAIN a.variable_types = {}
    \/ \E v \in Used(a.causes, a.effects, a.confounders) : v \notin DOMAIN a.variable_types

---------------------------------------------------------------------------
(* The claims *)

\* C1: with at least one discrete confounder, ATE(x) returns the sum over
\* every joint value z of the discrete confounders' inclusive ranges of
\* (integral over the effects' support of CATE(y, z, x)) * P(z).
C1_ATESumsWholeProduct ==
    (phase = "ready" /\ last_op = "ATE" /\ "discrete_Z" \in self.attrs /\ self.discrete_Z # <<>>)
    => /\ result.kind = "ok"
       /\ AllDiscrete(self, Range(self.confounders)) => result.val = AdjustedATE(self, last_in)

\* C2: with an empty confounder set every query reaches the no-confounder
\* branch without error: pdf(point) is P(y | x) and ATE(x) is the integral of
\* CATE over the effects' support alone.
C2_NoConfounderBranch ==
    (phase = "ready" /\ self.confounders = <<>>)
    => /\ last_op = "pdf" =>
            result = Ok(Kernel(self.kYgXZ, Values(last_in, self.effects) \o Values(last_in, self.causes)))
       /\ last_op = "ATE" =>
            result = Ok(IntegralCATE(self, <<>>, last_in))

\* C3: with at least one discrete confounder (continuous ones possibly
\* present too), pdf(point) completes and returns the sum over every joint
\* value z of the discrete confounders' inclusive ranges of P(y | x, z) * P(z).
C3_PdfSumsWholeProduct ==
    (phase = "ready" /\ last_op = "pdf" /\ "discrete_Z" \in self.attrs /\ self.discrete_Z # <<>>)
    => /\ result.kind = "ok"
       /\ AllDiscrete(self, Range(self.confounders)) => result.val = AdjustedPdf(self, last_in)

\* C4: integrationFlow(y, x) returns minus p * log(p / q) in both branches,
\* the one taken when the causes include a discrete variable and the one
\* taken when all causes are continuous.
C4_FlowSignSameInBothBranches ==
    (phase = "ready" /\ last_op = "integration_flow" /\ "discrete_X" \in self.attrs
        /\ pdf(self, ZipRow(self.effects \o self.causes, last_in)).kind = "ok")
    => /\ result.kind = "ok"
       /\ result.val.sign = -1
       /\ result.val.p = Plus(pdf(self, ZipRow(self.effects \o self.causes, last_in)).val, 1)

\* C5: in information-flow mode, localFlow(x) completes and returns minus
\* the integral over the effects' support of integrationFlow(y, x), the cause
\* values given to the integrand being those of the queried record x.
C5_LocalFlowUsesQueriedRecord ==
    (phase = "ready" /\ last_op = "local_flow" /\ ctor_args.info)
    => result = Ok(LocalFlowOf(self, globals, last_in))

\* C6: construction fails with a ConfigurationError, and with no other kind
\* of error, whenever variable_types is absent or empty or lacks an entry for
\* a variable named in causes, effects or confounders.
C6_BadTypesConfigurationError ==
    (phase # "new" /\ BadTypes(ctor_args))
    => (phase = "failed" /\ ctor_error = "ConfigurationError")

\* C7: a flow operation on an estimator constructed without the info flag
\* fails with a ConfigurationError.
C7_FlowWithoutInfoFailsFast ==
    (phase = "ready" /\ last_op \in {"integration_flow", "local_flow"} /\ ~ctor_args.info)
    => result = Err("ConfigurationError")

\* C8: after construction, the support of a continuous variable v is
\* (min_v - 0.01 * bw_v, max_v + 0.01 * bw_v) with bw_v the bandwidth the
\* outcome-conditional model fitted for v itself, and the support of a
\* discrete variable is (min_v, max_v).
C8_SupportUsesOwnBandwidth ==
    phase = "ready"
    => \A v \in Used(self.causes, self.effects, self.confounders) :
          LET bw_v == self.kYgXZ.bw[IndexOf(self.kYgXZ.dims, v)]
          IN self.support[v] =
                IF self.variable_types[v] = "c"
                THEN <<100 * DataMin(v) - K * bw_v, 100 * DataMax(v) + K * bw_v>>
                ELSE <<100 * DataMin(v), 100 * DataMax(v)>>

\* C9: after construction no query, returning or failing, changes the
\* estimator: the partition, the types, the discrete/continuous subsets, the
\* three density models and the support table stay as construction left them.
C9_QueriesLeaveEstimatorUnchanged == [][phase = "ready" => (self' = self /\ phase' = "ready")]_vars

\* C9 witness: a query has returned a value on a constructed estimator that
\* holds all three density models
C9_Witness ==
    /\ phase = "ready"
    /\ {"kYgXZ", "kZ", "kX"} \subseteq self.attrs
    /\ last_op = "integration_flow"
    /\ result.kind = "ok"

\* C10: in the discrete-cause branch of integrationFlow(y, x), q is the sum
\* over every joint value of the discrete causes' inclusive ranges of
\* P_X(x') * pdf(x', y), x' having y as queried, each discrete cause at its
\* own enumerated value and each continuous cause at its queried value.
C10_ReferenceMassOverDiscreteCauses ==
    (phase = "ready" /\ last_op = "integration_flow" /\ result.kind = "ok")
    => result.val.q = Plus(ReferenceMass(self, ZipRow(self.effects \o self.causes, last_in)), 1)

====
